---------------------------- MODULE Spec2Model ----------------------------
(***************************************************************************)
(* A model of koe, a push-to-talk dictation utility:                       *)
(*   - HotkeyListener   (src/src/hotkey_listener.py)                       *)
(*   - WhisperApp       (src/main.py), with AudioRecorder                  *)
(*                      (src/src/audio_recorder.py) and its worker threads *)
(*   - HistoryManager   (src/src/history_manager.py)                       *)
(* Each component has its own specifications (SpecHotkey, SpecLifecycle,   *)
(* SpecApp, SpecOverlay, SpecRecorder, SpecThreads, SpecHistory,           *)
(* SpecHistorySerial);                                                     *)
(* the variables of the other components stay unchanged.                   *)
(***************************************************************************)
EXTENDS Integers, Sequences, FiniteSets, TLC

VARIABLES
    \* ---- HotkeyListener
    mode,               \* self.mode: "hold" or "toggle"
    pressed_modifiers,  \* self._pressed_modifiers (normalized names)
    hk_is_recording,    \* self._is_recording
    hotkey_active,      \* self._hotkey_active
    held,               \* the physical keys that are down (environment)
    ev,                 \* the kind of the last key event: "down" or "up"
    cb,                 \* the callback the last key event invoked, or "none"
    last_cb,            \* the last callback invoked before the last event
    listener,           \* self._listener is not None: the listener is attached
    downs,              \* the modifiers (normalized) and the trigger key whose
                        \* key-down the listener has got since its last start
    \* ---- WhisperApp, its AudioRecorder and its worker threads
    is_transcribing,    \* WhisperApp._is_transcribing
    overlay_visible,    \* WaveformOverlay._is_visible
    rec_is_recording,   \* AudioRecorder._is_recording (armed)
    audio_data,         \* AudioRecorder._audio_data: the chunks, in order
    stream_open,        \* AudioRecorder._stream is an open device stream
    rec_event,          \* the last step on the recorder
    rec_ret,            \* what stop() returned, if the last step was a stop()
    lock,               \* AudioRecorder._lock: "free", or the thread holding it
    client_pc,          \* where the thread calling start(), stop() or
                        \* get_duration() is, step by step
    cbk_pc,             \* where the device's callback thread is
    session,            \* the chunks the callback got while the recorder was
                        \* armed, since start() last armed it
    last_edge,          \* what the orchestrator did with the last hotkey edge
    wpc,                \* per worker thread: where it is
    last_done,          \* how the last worker thread to end had gone
    w_raised,           \* per worker thread: the call that raised, or "none"
    \* ---- HistoryManager and the threads that call it
    rows,               \* the history table: records [id, created_at]
    seq,                \* sqlite_sequence: the largest id ever assigned
    now,                \* the clock, in ticks (UTC)
    tz,                 \* local time minus UTC, in ticks
    h_calls,            \* the add() calls in progress, one per calling thread:
                        \* [entry_id, pc]
    h_event,            \* the last step on the store, if it was a cleanup, a
                        \* return of add() or a query: <<step, number>>
    h_result,           \* the rows the last step returned, if it was a query
    serial,             \* the callers make one call at a time
    issued              \* the ids the inserts were given, in order

hotkey_vars == <<mode, pressed_modifiers, hk_is_recording, hotkey_active,
                 held, ev, cb, last_cb, listener, downs>>

orch_vars == <<is_transcribing, overlay_visible>>
rec_vars == <<rec_is_recording, audio_data, stream_open>>
rec_threads == <<lock, client_pc, cbk_pc, session>>
rec_obs == <<rec_event, rec_ret, rec_threads>>
app_vars == <<orch_vars, rec_vars, rec_obs, last_edge, wpc, last_done, w_raised>>

history_vars == <<rows, seq, now, tz, h_calls, h_event, h_result, serial,
                  issued>>

vars == <<hotkey_vars, app_vars, history_vars>>

(***************************************************************************)
(*                            HotkeyListener                               *)
(***************************************************************************)

\* config.HOTKEY_MODIFIERS and config.HOTKEY_KEY, as main.py passes them
HOTKEY_MODIFIERS == {"cmd", "shift"}
HOTKEY_KEY == "space"

\* the pynput keys _on_press/_on_release tell apart: the four modifiers in
\* their generic, left and right variants
CmdKeys == {"cmd", "cmd_l", "cmd_r"}
ShiftKeys == {"shift", "shift_l", "shift_r"}
CtrlKeys == {"ctrl", "ctrl_l", "ctrl_r"}
AltKeys == {"alt", "alt_l", "alt_r"}
ModKeys == CmdKeys \cup ShiftKeys \cup CtrlKeys \cup AltKeys

\* the keys the model delivers, one name per physical key: the left and
\* right keys of the two configured modifiers, two modifiers the combo does
\* not use, the trigger key and a character key
Keys == {"cmd", "cmd_r", "shift_l", "shift_r", "ctrl", "alt_r", "space", "a"}

\* the normalisation at the top of _on_press and _on_release
Normalize(key) ==
    IF key \in CmdKeys THEN "cmd"
    ELSE IF key \in ShiftKeys THEN "shift"
    ELSE IF key \in CtrlKeys THEN "ctrl"
    ELSE "alt"

\* _get_required_modifiers: the configured names found in _modifier_map
ModifierMap ==
    [n \in {"cmd", "command", "shift", "ctrl", "control", "alt", "option"} |->
        CASE n \in {"cmd", "command"} -> "cmd"
          [] n = "shift" -> "shift"
          [] n \in {"ctrl", "control"} -> "ctrl"
          [] OTHER -> "alt"]

GetRequiredModifiers ==
    {ModifierMap[m] : m \in HOTKEY_MODIFIERS \cap DOMAIN ModifierMap}

\* pressed.name.replace('_l', '').replace('_r', '')
StripVariant(name) ==
    CASE name \in CmdKeys -> "cmd"
      [] name \in ShiftKeys -> "shift"
      [] name \in CtrlKeys -> "ctrl"
      [] name \in AltKeys -> "alt"
      [] OTHER -> name

\* _check_modifiers, on a given pressed set
CheckModifiers(pressed) ==
    \A req \in GetRequiredModifiers :
        \/ req \in pressed
        \/ \E p \in pressed : StripVariant(p) = req

\* _is_trigger_key: the trigger is Key.space, which has no char
IsTriggerKey(key) == key = HOTKEY_KEY

\* the modifier bookkeeping of _on_press
PressModifiers(pressed, key) ==
    IF key \in ModKeys THEN pressed \cup {Normalize(key)} ELSE pressed

\* the modifier bookkeeping of _on_release
ReleaseModifiers(pressed, key) ==
    IF key \in ModKeys THEN pressed \ {Normalize(key)} ELSE pressed

\* the condition under which _on_press looks at the active flag
PressTriggers(pressed, key) == IsTriggerKey(key) /\ CheckModifiers(pressed)

\* the condition under which _on_release looks at the active flag
ReleaseTriggers(key) == IsTriggerKey(key)

\* the callback _on_press invokes once the hotkey is newly active
PressCallback(m, recording) ==
    IF m = "hold" THEN "activate"
    ELSE IF recording THEN "deactivate" ELSE "activate"

\* an _on_press that forgets "self._is_recording = True" in hold mode
PressRecordingUnset(m, recording) ==
    IF m = "hold" THEN FALSE ELSE ~recording

\* _is_recording after _on_press found the hotkey newly active
PressRecording(m, recording) ==
    IF m = "hold" THEN TRUE ELSE ~recording

\* the callback _on_release invokes once the active flag was set
ReleaseCallback(m, recording) ==
    IF m = "hold" /\ recording THEN "deactivate" ELSE "none"

Emitted(prev, this) == IF this = "none" THEN prev ELSE this

\* an _on_press that does not look at the active flag
NewlyActiveAlways(active) == TRUE

\* _on_press: "if not self._hotkey_active"
NewlyActive(active) == ~active

\* a stop() that leaves the pressed modifiers as they are
PressedKeptAfterStop(pressed) == pressed

\* stop(): self._pressed_modifiers.clear()
PressedAfterStop(pressed) == {}

\* the keys the ghost downs records
Recorded(key) ==
    IF key \in ModKeys THEN {Normalize(key)}
    ELSE IF IsTriggerKey(key) THEN {key} ELSE {}

\* the listener after __init__ and the start() in WhisperApp.__init__
HotkeyInit ==
    /\ mode \in {"hold", "toggle"}
    /\ pressed_modifiers = {}
    /\ hk_is_recording = FALSE
    /\ hotkey_active = FALSE
    /\ held = {}
    /\ ev = "none"
    /\ cb = "none"
    /\ last_cb = "none"
    /\ listener = TRUE
    /\ downs = {}

\* HotkeyListener._on_press(key); the system repeats the key-down of a held
\* key that is not a modifier
OnPress(key) ==
    LET pm == PressModifiers(pressed_modifiers, key)
        fire == PressTriggers(pm, key) /\ NewlyActive(hotkey_active)
    IN  /\ listener
        /\ key \in held => key \notin ModKeys
        /\ downs' = downs \cup Recorded(key)
        /\ pressed_modifiers' = pm
        /\ hotkey_active' = (hotkey_active \/ fire)
        /\ hk_is_recording' =
              IF fire THEN PressRecording(mode, hk_is_recording)
              ELSE hk_is_recording
        /\ cb' = IF fire THEN PressCallback(mode, hk_is_recording) ELSE "none"
        /\ last_cb' = Emitted(last_cb, cb)
        /\ held' = held \cup {key}
        /\ ev' = "down"
        /\ UNCHANGED <<mode, listener, app_vars, history_vars>>

\* HotkeyListener._on_release(key), of a key that is down
OnRelease(key) ==
    LET fire == ReleaseTriggers(key) /\ hotkey_active
    IN  /\ listener
        /\ key \in held
        /\ pressed_modifiers' = ReleaseModifiers(pressed_modifiers, key)
        /\ hotkey_active' = (hotkey_active /\ ~fire)
        /\ hk_is_recording' =
              IF fire /\ mode = "hold" THEN FALSE ELSE hk_is_recording
        /\ cb' = IF fire THEN ReleaseCallback(mode, hk_is_recording) ELSE "none"
        /\ last_cb' = Emitted(last_cb, cb)
        /\ held' = held \ {key}
        /\ ev' = "up"
        /\ UNCHANGED <<mode, listener, downs, app_vars, history_vars>>

HotkeyNext ==
    \/ \E key \in Keys : OnPress(key)
    \/ \E key \in Keys : OnRelease(key)

\* HotkeyListener.start()
ListenerStart ==
    /\ ev' = "start"
    /\ cb' = "none"
    /\ last_cb' = Emitted(last_cb, cb)
    /\ IF listener
       THEN UNCHANGED <<listener, downs>>
       ELSE listener' = TRUE /\ downs' = {}
    /\ UNCHANGED <<mode, pressed_modifiers, hk_is_recording, hotkey_active,
                   held, app_vars, history_vars>>

\* HotkeyListener.stop()
ListenerStop ==
    /\ ev' = "stop"
    /\ cb' = "none"
    /\ last_cb' = Emitted(last_cb, cb)
    /\ IF listener
       THEN /\ listener' = FALSE
            /\ pressed_modifiers' = PressedAfterStop(pressed_modifiers)
            /\ hk_is_recording' = FALSE
            /\ hotkey_active' = FALSE
       ELSE UNCHANGED <<listener, pressed_modifiers, hk_is_recording,
                        hotkey_active>>
    /\ UNCHANGED <<mode, held, downs, app_vars, history_vars>>

\* a key going down or up while no listener is attached: neither handler
\* runs
KeyUnseen(key) ==
    /\ ~listener
    /\ held' = IF key \in held THEN held \ {key} ELSE held \cup {key}
    /\ ev' = "unseen"
    /\ cb' = "none"
    /\ last_cb' = Emitted(last_cb, cb)
    /\ UNCHANGED <<mode, pressed_modifiers, hk_is_recording, hotkey_active,
                   listener, downs, app_vars, history_vars>>

LifecycleNext ==
    \/ \E key \in Keys : OnPress(key)
    \/ \E key \in Keys : OnRelease(key)
    \/ ListenerStart
    \/ ListenerStop
    \/ \E key \in Keys : KeyUnseen(key)

(***************************************************************************)
(*              WhisperApp, AudioRecorder, worker threads                  *)
(* A hotkey callback runs on the listener thread from its guard to its     *)
(* return in one step: after the guard it reads nothing a worker writes,   *)
(* and the device callback only runs while a stream is open.  The menu bar *)
(* title and the status item are display only and are left out.            *)
(***************************************************************************)

\* frames per second of audio, scaled down from config.SAMPLE_RATE
SampleRate == 4
\* the most chunks the device callback buffers in one session
MaxChunks == 3
\* worker threads that can exist at once
MaxWorkers == 2
\* the factor of the conversion of a float32 sample to int16
Int16Max == 32767

Workers == 1..MaxWorkers
\* the blocks of samples the device delivers, a sample being -1, 0 or 1
\* of full scale: two blocks of one frame and a block of two
Chunks == {<<1>>, <<-1>>, <<0, -1>>}
\* the block the device delivers in the runs of the whole application,
\* where only the length of a clip matters
AppChunks == {<<0, -1>>}

\* np.concatenate(self._audio_data, axis=0)
RECURSIVE Concat(_)
Concat(chunks) ==
    IF chunks = <<>> THEN <<>> ELSE Head(chunks) \o Concat(Tail(chunks))

\* len(np.concatenate(self._audio_data))
ConcatLen(chunks) == Len(Concat(chunks))

\* AudioRecorder.stop with the check "<=": half a second is too short
TooShortInclusive(frames) == 2 * frames <= SampleRate

\* AudioRecorder.stop: "if len(audio) < self.sample_rate * 0.5: return None"
TooShort(frames) == 2 * frames < SampleRate

\* (audio * 32767).astype(np.int16), sample by sample
ToInt16(audio) == [i \in 1..Len(audio) |-> audio[i] * Int16Max]

\* stop() returning None
NoClip == <<>>

\* what AudioRecorder.stop returns on an armed recorder for the buffered
\* chunks: the frames written to the WAV file, or None
StopResult(chunks) ==
    IF chunks = <<>> THEN NoClip
    ELSE IF TooShort(ConcatLen(chunks)) THEN NoClip
    ELSE ToInt16(Concat(chunks))

\* a stop() that leaves the buffer as it is
BufferKept(chunks) == chunks

\* self._audio_data after stop() on an armed recorder: an empty buffer is
\* left alone, any other is replaced by []
BufferAfterStop(chunks) == IF chunks = <<>> THEN chunks ELSE <<>>

\* get_duration(), in frames: total_frames (the code divides by sample_rate)
GetDurationFrames(chunks) == IF chunks = <<>> THEN 0 ELSE ConcatLen(chunks)

\* a start() that never returns early
StartNeverReturnsEarly(recording) == FALSE

\* AudioRecorder.start: "if self._is_recording: return"
StartReturnsEarly(recording) == recording

\* sd.InputStream(...) and stream.start() succeed or raise
StartOutcomes == {"ok", "raise"}

\* a start handler without the guard: every Activate edge is processed
StartGuardAlways(transcribing) == TRUE

\* the guard at the top of _on_recording_start: TRUE when the edge is
\* processed
StartGuard(transcribing) == ~transcribing

\* the guard at the top of _on_recording_stop
StopGuard(transcribing) == ~transcribing

\* a stop handler that starts a worker thread whatever stop() returned
DispatchAlways(audio_path) == TRUE

\* _on_recording_stop: a worker thread is started unless
\* "audio_path is None"
Dispatch(audio_path) == audio_path # NoClip

\* a worker thread that has been started and has not yet cleared the flag
InFlight(w) == wpc[w] # "idle"

\* a worker thread past line 180 and not yet in its except or finally block
Running(w) == wpc[w] \in {"transcribe", "insert", "add"}

\* threading.Thread(...).start(): a new thread; the model takes the lowest
\* free slot
FreeWorkers == {w \in Workers : wpc[w] = "idle"}
NewWorker == CHOOSE w \in FreeWorkers : \A v \in FreeWorkers : w <= v

\* a worker without try/finally: an exception of transcribe_with_info ends
\* the thread where it is raised
AfterTranscribeUncaught(outcome) ==
    CASE outcome = "text" -> "insert"
      [] outcome = "empty" -> "finally"
      [] OTHER -> "died"

\* a worker that takes a failed transcription for a text
AfterTranscribeIgnoreFailure(outcome) ==
    CASE outcome = "text" -> "insert"
      [] outcome = "empty" -> "finally"
      [] OTHER -> "insert"

\* where _transcribe_and_insert goes after transcribe_with_info
AfterTranscribe(outcome) ==
    CASE outcome = "text" -> "insert"
      [] outcome = "empty" -> "finally"
      [] OTHER -> "except"

\* text_inserter.insert: it returns after a paste that worked ("ok"), it
\* returns although osascript failed, whose exit status subprocess.run
\* does not check ("failed"), or Popen/run raise ("raise")
InsertOutcomes == {"ok", "failed", "raise"}

\* where it goes after text_inserter.insert
AfterInsert(outcome) == IF outcome = "raise" THEN "except" ELSE "add"

\* where it goes after history.add and _update_history_menu
AfterAdd(outcome) == IF outcome = "ok" THEN "finally" ELSE "except"

AppInit ==
    /\ is_transcribing = FALSE
    /\ overlay_visible = FALSE
    /\ rec_is_recording = FALSE
    /\ audio_data = <<>>
    /\ stream_open = FALSE
    /\ rec_event = "none"
    /\ rec_ret = NoClip
    /\ lock = "free"
    /\ client_pc = "idle"
    /\ cbk_pc = "idle"
    /\ session = <<>>
    /\ last_edge = "none"
    /\ wpc = [w \in Workers |-> "idle"]
    /\ last_done = "none"
    /\ w_raised = [w \in Workers |-> "none"]

\* AudioRecorder.start
RecorderStart(outcome) ==
    /\ rec_ret' = NoClip
    /\ UNCHANGED <<lock, client_pc, cbk_pc>>
    /\ IF StartReturnsEarly(rec_is_recording)
       THEN /\ outcome = "ok"
            /\ rec_event' = "start"
            /\ UNCHANGED <<rec_vars, session>>
       ELSE /\ audio_data' = <<>>
            /\ session' = <<>>
            /\ rec_is_recording' = TRUE
            /\ stream_open' = (outcome = "ok")
            /\ rec_event' = IF outcome = "ok" THEN "start" ELSE "start_raised"

\* AudioRecorder.stop
RecorderStop ==
    /\ rec_event' = "stop"
    /\ UNCHANGED rec_threads
    /\ IF ~rec_is_recording
       THEN /\ rec_ret' = NoClip
            /\ UNCHANGED rec_vars
       ELSE /\ rec_is_recording' = FALSE
            /\ stream_open' = FALSE
            /\ audio_data' = BufferAfterStop(audio_data)
            /\ rec_ret' = StopResult(audio_data)

\* WhisperApp._on_recording_start; an exception of recorder.start() leaves
\* the handler where it is raised
OnRecordingStart(outcome) ==
    IF StartGuard(is_transcribing)
    THEN /\ overlay_visible' = TRUE
         /\ RecorderStart(outcome)
         /\ last_edge' = IF rec_event' = "start_raised"
                         THEN "activate_raised" ELSE "activate_accepted"
         /\ UNCHANGED <<is_transcribing, wpc, w_raised>>
    ELSE /\ outcome = "ok"
         /\ last_edge' = "activate_dropped"
         /\ UNCHANGED <<orch_vars, rec_vars, rec_obs, wpc, w_raised>>

\* AudioRecorder.stop, and what _on_recording_stop does with its result:
\* on None it returns, on a clip it starts a worker thread
RecorderStopAndDispatch ==
    /\ RecorderStop
    /\ IF ~Dispatch(rec_ret')
       THEN UNCHANGED <<wpc, w_raised>>
       ELSE /\ wpc' = [wpc EXCEPT ![NewWorker] = "spawned"]
            /\ w_raised' = [w_raised EXCEPT ![NewWorker] = "none"]

\* WhisperApp._on_recording_stop
OnRecordingStop ==
    IF StopGuard(is_transcribing)
    THEN /\ overlay_visible' = FALSE
         /\ RecorderStopAndDispatch
         /\ last_edge' = "deactivate_accepted"
         /\ UNCHANGED is_transcribing
    ELSE /\ last_edge' = "deactivate_dropped"
         /\ UNCHANGED <<orch_vars, rec_vars, rec_obs, wpc, w_raised>>

\* HotkeyListener._on_press reaching on_activate() in hold mode (lines
\* 123-127): the user completes the combo
HotkeyActivate(outcome) ==
    /\ ~hotkey_active
    /\ hotkey_active' = TRUE
    /\ hk_is_recording' = TRUE
    /\ OnRecordingStart(outcome)
    /\ UNCHANGED <<mode, pressed_modifiers, held, ev, cb, last_cb, listener,
                   downs, last_done, history_vars>>

\* HotkeyListener._on_release reaching on_deactivate() in hold mode (lines
\* 150-155): the user releases the trigger key
HotkeyDeactivate ==
    /\ hotkey_active
    /\ hk_is_recording
    /\ FreeWorkers # {}
    /\ hotkey_active' = FALSE
    /\ hk_is_recording' = FALSE
    /\ OnRecordingStop
    /\ UNCHANGED <<mode, pressed_modifiers, held, ev, cb, last_cb, listener,
                   downs, last_done, history_vars>>

\* AudioRecorder._audio_callback, delivered by the open stream
AudioCallback(indata) ==
    /\ stream_open
    /\ rec_is_recording
    /\ Len(audio_data) < MaxChunks
    /\ audio_data' = Append(audio_data, indata)
    /\ rec_event' = "callback"
    /\ rec_ret' = NoClip
    /\ UNCHANGED <<hotkey_vars, orch_vars, rec_is_recording, stream_open,
                   rec_threads,
                   last_edge, wpc, last_done, w_raised, history_vars>>

\* _transcribe_and_insert: self._is_transcribing = True
WorkerBegin(w) ==
    /\ wpc[w] = "spawned"
    /\ is_transcribing' = TRUE
    /\ wpc' = [wpc EXCEPT ![w] = "transcribe"]
    /\ UNCHANGED <<hotkey_vars, overlay_visible, rec_vars, rec_obs, last_edge,
                   last_done, w_raised, history_vars>>

\* _transcribe_and_insert: transcribe_with_info returns text, returns empty
\* text, or raises
WorkerTranscribe(w) ==
    /\ wpc[w] = "transcribe"
    /\ \E outcome \in {"text", "empty", "raise"} :
          /\ wpc' = [wpc EXCEPT ![w] = AfterTranscribe(outcome)]
          /\ w_raised' = [w_raised EXCEPT ![w] =
                IF outcome = "raise" THEN "transcribe" ELSE "none"]
    /\ UNCHANGED <<hotkey_vars, orch_vars, rec_vars, rec_obs, last_edge,
                   last_done, history_vars>>

\* _transcribe_and_insert: text_inserter.insert(text) returns or raises
WorkerInsert(w) ==
    /\ wpc[w] = "insert"
    /\ \E outcome \in InsertOutcomes :
          /\ wpc' = [wpc EXCEPT ![w] = AfterInsert(outcome)]
          /\ w_raised' = [w_raised EXCEPT ![w] =
                IF outcome = "raise" THEN "insert" ELSE "none"]
    /\ UNCHANGED <<hotkey_vars, orch_vars, rec_vars, rec_obs, last_edge,
                   last_done, history_vars>>

\* _transcribe_and_insert: history.add(...) and _update_history_menu()
\* return or raise
WorkerAdd(w) ==
    /\ wpc[w] = "add"
    /\ \E outcome \in {"ok", "raise"} :
          /\ wpc' = [wpc EXCEPT ![w] = AfterAdd(outcome)]
          /\ w_raised' = [w_raised EXCEPT ![w] =
                IF outcome = "raise" THEN "add" ELSE "none"]
    /\ UNCHANGED <<hotkey_vars, orch_vars, rec_vars, rec_obs, last_edge,
                   last_done, history_vars>>

\* _transcribe_and_insert: the except block
WorkerExcept(w) ==
    /\ wpc[w] = "except"
    /\ wpc' = [wpc EXCEPT ![w] = "finally_raised"]
    /\ UNCHANGED <<hotkey_vars, orch_vars, rec_vars, rec_obs, last_edge,
                   last_done, w_raised, history_vars>>

\* _transcribe_and_insert: the finally block; the thread ends
WorkerFinally(w) ==
    /\ wpc[w] \in {"finally", "finally_raised"}
    /\ is_transcribing' = FALSE
    /\ wpc' = [wpc EXCEPT ![w] = "idle"]
    /\ last_done' = IF wpc[w] = "finally" THEN "returned" ELSE "raised"
    /\ w_raised' = [w_raised EXCEPT ![w] = "none"]
    /\ UNCHANGED <<hotkey_vars, overlay_visible, rec_vars, rec_obs, last_edge,
                   history_vars>>

\* worker thread w continuing
WorkerStep(w) ==
    \/ WorkerBegin(w)
    \/ WorkerTranscribe(w)
    \/ WorkerInsert(w)
    \/ WorkerAdd(w)
    \/ WorkerExcept(w)
    \/ WorkerFinally(w)

AppNext ==
    \/ \E outcome \in StartOutcomes : HotkeyActivate(outcome)
    \/ HotkeyDeactivate
    \/ \E indata \in AppChunks : AudioCallback(indata)
    \/ \E w \in Workers : WorkerStep(w)

\* a callback that stores the chunk whether the recorder is armed or not
CallbackStoresAlways(recording) == TRUE

\* _audio_callback: "if self._is_recording"
CallbackStores(recording) == recording

\* a "with self._lock" block that is left with the lock still held
KeepLock(owner) == owner

\* the lock at the end of a "with self._lock" block
ReleaseLock(owner) == "free"

\* the other variables of the model, which the steps of the recorder's
\* threads leave alone
beside_recorder == <<hotkey_vars, orch_vars, last_edge, wpc, last_done,
                     w_raised, history_vars>>

\* _audio_callback, first part: the device calls it while the stream is
\* open; it takes the lock and, when the recorder is armed, appends the
\* chunk
CallbackLocked(indata) ==
    /\ stream_open
    /\ cbk_pc = "idle"
    /\ lock = "free"
    /\ Len(audio_data) < MaxChunks
    /\ lock' = "callback"
    /\ IF CallbackStores(rec_is_recording)
       THEN /\ audio_data' = Append(audio_data, indata)
            /\ cbk_pc' = "amplitude"
       ELSE /\ cbk_pc' = "exit"
            /\ UNCHANGED audio_data
    /\ session' = IF rec_is_recording THEN Append(session, indata) ELSE session
    /\ rec_event' = "callback"
    /\ UNCHANGED <<rec_is_recording, stream_open, rec_ret, client_pc,
                   beside_recorder>>

\* _audio_callback, second part: self.on_amplitude(amplitude), inside the
\* with block
CallbackAmplitude ==
    /\ cbk_pc = "amplitude"
    /\ cbk_pc' = "exit"
    /\ rec_event' = "amplitude"
    /\ UNCHANGED <<rec_vars, rec_ret, lock, client_pc, session,
                   beside_recorder>>

\* _audio_callback, the end of the with block
CallbackExit ==
    /\ cbk_pc = "exit"
    /\ cbk_pc' = "idle"
    /\ lock' = ReleaseLock(lock)
    /\ UNCHANGED <<rec_vars, rec_event, rec_ret, client_pc, session,
                   beside_recorder>>

\* start(), stop() or get_duration() entering its first with block
ClientAcquire(call) ==
    /\ client_pc = "idle"
    /\ lock = "free"
    /\ lock' = "client"
    /\ client_pc' = call
    /\ UNCHANGED <<rec_vars, rec_event, rec_ret, cbk_pc, session,
                   beside_recorder>>

\* start(), the with block
StartLocked ==
    /\ client_pc = "start_locked"
    /\ lock' = ReleaseLock(lock)
    /\ IF StartReturnsEarly(rec_is_recording)
       THEN /\ client_pc' = "idle"
            /\ rec_event' = "start"
            /\ UNCHANGED <<rec_is_recording, audio_data, session>>
       ELSE /\ audio_data' = <<>>
            /\ rec_is_recording' = TRUE
            /\ session' = <<>>
            /\ client_pc' = "start_open"
            /\ UNCHANGED rec_event
    /\ UNCHANGED <<stream_open, rec_ret, cbk_pc, beside_recorder>>

\* start(), sd.InputStream(...) and self._stream.start()
StartOpen(outcome) ==
    /\ client_pc = "start_open"
    /\ stream_open' = (outcome = "ok")
    /\ rec_event' = IF outcome = "ok" THEN "start" ELSE "start_raised"
    /\ client_pc' = "idle"
    /\ UNCHANGED <<rec_is_recording, audio_data, rec_ret, lock, cbk_pc,
                   session, beside_recorder>>

\* stop(), the first with block
StopLocked ==
    /\ client_pc = "stop_locked"
    /\ lock' = ReleaseLock(lock)
    /\ IF ~rec_is_recording
       THEN /\ client_pc' = "idle"
            /\ rec_event' = "stop"
            /\ rec_ret' = NoClip
            /\ UNCHANGED rec_is_recording
       ELSE /\ rec_is_recording' = FALSE
            /\ client_pc' = "stop_stream"
            /\ UNCHANGED <<rec_event, rec_ret>>
    /\ UNCHANGED <<audio_data, stream_open, cbk_pc, session, beside_recorder>>

\* stop(), self._stream.stop() and close()
StopStream ==
    /\ client_pc = "stop_stream"
    /\ stream_open' = FALSE
    /\ client_pc' = "stop_unlocked"
    /\ UNCHANGED <<rec_is_recording, audio_data, rec_event, rec_ret, lock,
                   cbk_pc, session, beside_recorder>>

\* stop() entering its second with block
StopAcquire ==
    /\ client_pc = "stop_unlocked"
    /\ lock = "free"
    /\ lock' = "client"
    /\ client_pc' = "stop_drain"
    /\ UNCHANGED <<rec_vars, rec_event, rec_ret, cbk_pc, session,
                   beside_recorder>>

\* stop(), the second with block and what follows it to the return
StopDrain ==
    /\ client_pc = "stop_drain"
    /\ lock' = ReleaseLock(lock)
    /\ rec_ret' = StopResult(audio_data)
    /\ audio_data' = BufferAfterStop(audio_data)
    /\ rec_event' = "stop"
    /\ client_pc' = "idle"
    /\ UNCHANGED <<rec_is_recording, stream_open, cbk_pc, session,
                   beside_recorder>>

\* get_duration(), the with block
DurationLocked ==
    /\ client_pc = "duration_locked"
    /\ lock' = ReleaseLock(lock)
    /\ rec_event' = "duration"
    /\ client_pc' = "idle"
    /\ UNCHANGED <<rec_vars, rec_ret, cbk_pc, session, beside_recorder>>

ThreadsNext ==
    \/ \E indata \in Chunks : CallbackLocked(indata)
    \/ CallbackAmplitude
    \/ CallbackExit
    \/ \E call \in {"start_locked", "stop_locked", "duration_locked"} :
          ClientAcquire(call)
    \/ StartLocked
    \/ \E outcome \in StartOutcomes : StartOpen(outcome)
    \/ StopLocked
    \/ StopStream
    \/ StopAcquire
    \/ StopDrain
    \/ DurationLocked

\* WaveformOverlay.update_amplitude: "if self._waveform_view and
\* self._is_visible"; there is a view once the overlay has been shown
ViewGetsAmplitude(visible) == visible

\* what the steps of the two handlers leave alone
beside_handlers == <<mode, pressed_modifiers, held, ev, cb, last_cb, listener,
                     downs, last_done, history_vars>>

\* _on_recording_start up to overlay.show(), called by the listener for an
\* Activate edge
StartHandlerShow ==
    /\ last_edge \notin {"activate_begun", "deactivate_begun"}
    /\ ~hotkey_active
    /\ hotkey_active' = TRUE
    /\ hk_is_recording' = TRUE
    /\ IF StartGuard(is_transcribing)
       THEN /\ overlay_visible' = TRUE
            /\ last_edge' = "activate_begun"
       ELSE /\ last_edge' = "activate_dropped"
            /\ UNCHANGED overlay_visible
    /\ UNCHANGED <<is_transcribing, rec_vars, rec_obs, wpc, w_raised,
                   beside_handlers>>

\* _on_recording_start: self.recorder.start()
StartHandlerRecorder(outcome) ==
    /\ last_edge = "activate_begun"
    /\ lock = "free"
    /\ RecorderStart(outcome)
    /\ last_edge' = IF rec_event' = "start_raised"
                    THEN "activate_raised" ELSE "activate_accepted"
    /\ UNCHANGED <<hk_is_recording, hotkey_active, orch_vars, wpc, w_raised,
                   beside_handlers>>

\* _on_recording_stop up to overlay.hide(), called by the listener for a
\* Deactivate edge
StopHandlerHide ==
    /\ last_edge \notin {"activate_begun", "deactivate_begun"}
    /\ hotkey_active
    /\ hk_is_recording
    /\ hotkey_active' = FALSE
    /\ hk_is_recording' = FALSE
    /\ IF StopGuard(is_transcribing)
       THEN /\ overlay_visible' = FALSE
            /\ last_edge' = "deactivate_begun"
       ELSE /\ last_edge' = "deactivate_dropped"
            /\ UNCHANGED overlay_visible
    /\ UNCHANGED <<is_transcribing, rec_vars, rec_obs, wpc, w_raised,
                   beside_handlers>>

\* _on_recording_stop: self.recorder.stop() and what follows it
StopHandlerRecorder ==
    /\ last_edge = "deactivate_begun"
    /\ lock = "free"
    /\ FreeWorkers # {}
    /\ RecorderStopAndDispatch
    /\ last_edge' = "deactivate_accepted"
    /\ UNCHANGED <<hk_is_recording, hotkey_active, orch_vars, beside_handlers>>

\* _audio_callback calling on_amplitude, which is _on_amplitude and so
\* update_amplitude: the test of the overlay
AmplitudeCheck ==
    /\ cbk_pc = "amplitude"
    /\ cbk_pc' = IF ViewGetsAmplitude(overlay_visible) THEN "deliver" ELSE "exit"
    /\ UNCHANGED <<rec_vars, rec_event, rec_ret, lock, client_pc, session,
                   beside_recorder>>

\* update_amplitude: self._waveform_view.setAmplitude_(amplitude)
AmplitudeDeliver ==
    /\ cbk_pc = "deliver"
    /\ cbk_pc' = "exit"
    /\ rec_event' = "amplitude"
    /\ UNCHANGED <<rec_vars, rec_ret, lock, client_pc, session,
                   beside_recorder>>

OverlayNext ==
    \/ StartHandlerShow
    \/ \E outcome \in StartOutcomes : StartHandlerRecorder(outcome)
    \/ StopHandlerHide
    \/ StopHandlerRecorder
    \/ \E indata \in AppChunks : CallbackLocked(indata)
    \/ AmplitudeCheck
    \/ AmplitudeDeliver
    \/ CallbackExit
    \/ \E w \in Workers : WorkerStep(w)

\* AudioRecorder.start() called by any client
StartCall(outcome) ==
    /\ RecorderStart(outcome)
    /\ UNCHANGED <<hotkey_vars, orch_vars, last_edge, wpc, last_done, w_raised,
                   history_vars>>

\* AudioRecorder.stop() called by any client
StopCall ==
    /\ RecorderStop
    /\ UNCHANGED <<hotkey_vars, orch_vars, last_edge, wpc, last_done, w_raised,
                   history_vars>>

RecorderNext ==
    \/ \E outcome \in StartOutcomes : StartCall(outcome)
    \/ StopCall
    \/ \E indata \in Chunks : AudioCallback(indata)

(***************************************************************************)
(*                            HistoryManager                               *)
(* Every "with sqlite3.connect(...)" block is one transaction and SQLite   *)
(* runs transactions one at a time, so each block is one step; a thread    *)
(* can be preempted between the blocks of add().                           *)
(***************************************************************************)

\* config.HISTORY_MAX_ITEMS, scaled down
MaxItems == 2
\* config.HISTORY_RETENTION_DAYS, scaled down
RetentionDays == 1
\* clock ticks in a day
TicksPerDay == 4
\* the clock stops here
MaxTime == 9
\* the most rows ever inserted
MaxAdds == 3
\* threads calling the store
NumThreads == 2
\* the largest limit passed to get_recent
MaxLimit == 2

Ids == 1..MaxAdds
\* the limits get_recent() is given
Limits == 1..MaxLimit
\* time zones: half a day behind UTC, UTC, half a day ahead of UTC
TzOffsets == {-2, 0, 2}

\* the date part of a timestamp
DateOf(t) == t \div TicksPerDay

Max(a, b) == IF a > b THEN a ELSE b

RECURSIVE MaxId(_)
MaxId(rs) ==
    IF rs = {} THEN 0
    ELSE LET r == CHOOSE x \in rs : TRUE
         IN  Max(r.id, MaxId(rs \ {r}))

\* INTEGER PRIMARY KEY without AUTOINCREMENT: one more than the largest id
\* now in the table
NextIdRowid(rs, sequence) == MaxId(rs) + 1

\* INTEGER PRIMARY KEY AUTOINCREMENT: one more than the largest id the
\* table has ever held
NextId(rs, sequence) == sequence + 1

\* cleanup: "DELETE FROM history WHERE created_at < ?" compares the stored
\* UTC text 'YYYY-MM-DD HH:MM:SS' with the local-time text
\* 'YYYY-MM-DDTHH:MM:SS.ffffff' of the cutoff: the date decides, and on the
\* same date ' ' sorts before 'T'
AgeExpired(created_at, t, offset) ==
    DateOf(created_at) <= DateOf(t + offset) - RetentionDays

AgePass(rs, t, offset) == {r \in rs : ~AgeExpired(r.created_at, t, offset)}

Min(a, b) == IF a < b THEN a ELSE b

\* "ORDER BY created_at DESC" by a stable sort of the table: rows of one
\* created_at come with the smaller id first
OrderedBeforeStableSort(a, b) ==
    \/ a.created_at > b.created_at
    \/ a.created_at = b.created_at /\ a.id < b.id

\* "ORDER BY created_at DESC": SQLite reads idx_created_at backwards, so
\* rows of one created_at come with the larger id first
OrderedBefore(a, b) ==
    \/ a.created_at > b.created_at
    \/ a.created_at = b.created_at /\ a.id > b.id

\* the first row of "ORDER BY created_at DESC"
First(rs) == CHOOSE r \in rs : \A o \in rs \ {r} : OrderedBefore(r, o)

\* "SELECT ... FROM history ORDER BY created_at DESC LIMIT n"
RECURSIVE Recent(_, _)
Recent(rs, n) ==
    IF n = 0 \/ rs = {} THEN <<>>
    ELSE <<First(rs)>> \o Recent(rs \ {First(rs)}, n - 1)

\* cleanup: the rows "SELECT id FROM history ORDER BY created_at DESC
\* LIMIT max_items" keeps
KeepSets(rs) ==
    {K \in SUBSET rs :
        /\ Cardinality(K) = Min(Cardinality(rs), MaxItems)
        /\ \A k \in K : \A r \in rs \ K : OrderedBefore(k, r)}

\* the tables cleanup() can leave
CleanupResults(rs, t, offset) == KeepSets(AgePass(rs, t, offset))

\* a call can start: some thread is not inside add(), and callers that
\* make one call at a time wait for the call in progress
CanCall ==
    /\ Cardinality(h_calls) < NumThreads
    /\ serial => h_calls = {}

HistoryInit ==
    /\ rows = {}
    /\ seq = 0
    /\ now = TicksPerDay
    /\ tz \in TzOffsets
    /\ h_calls = {}
    /\ h_event = <<"none", 0>>
    /\ h_result = <<>>
    /\ serial \in BOOLEAN
    /\ issued = <<>>

\* add(): the INSERT, lastrowid and commit; a row is known by its id, the
\* columns text, duration and language are written here and never changed
AddInsert ==
    /\ CanCall
    /\ seq < MaxAdds
    /\ LET id == NextId(rows, seq)
       IN  /\ rows' = {r \in rows : r.id # id}
                \cup {[id |-> id, created_at |-> now]}
           /\ seq' = IF id > seq THEN id ELSE seq
           /\ h_calls' = h_calls \cup {[entry_id |-> id, pc |-> "cleanup"]}
           /\ issued' = Append(issued, id)
    /\ h_event' = <<"none", 0>>
    /\ h_result' = <<>>
    /\ UNCHANGED <<now, tz, serial>>
    /\ UNCHANGED <<hotkey_vars, app_vars>>

\* add(): self.cleanup()
AddCleanup(id) ==
    /\ [entry_id |-> id, pc |-> "cleanup"] \in h_calls
    /\ rows' \in CleanupResults(rows, now, tz)
    /\ h_calls' = (h_calls \ {[entry_id |-> id, pc |-> "cleanup"]})
                     \cup {[entry_id |-> id, pc |-> "return"]}
    /\ h_event' = <<"cleanup", 0>>
    /\ h_result' = <<>>
    /\ UNCHANGED <<seq, now, tz, serial, issued>>
    /\ UNCHANGED <<hotkey_vars, app_vars>>

\* add(): return entry_id
AddReturn(id) ==
    /\ [entry_id |-> id, pc |-> "return"] \in h_calls
    /\ h_calls' = h_calls \ {[entry_id |-> id, pc |-> "return"]}
    /\ h_event' = <<"add_return", id>>
    /\ h_result' = <<>>
    /\ UNCHANGED <<rows, seq, now, tz, serial, issued>>
    /\ UNCHANGED <<hotkey_vars, app_vars>>

\* get_recent(limit)
GetRecent(limit) ==
    /\ CanCall
    /\ h_event' = <<"get_recent", limit>>
    /\ h_result' = Recent(rows, limit)
    /\ UNCHANGED <<rows, seq, now, tz, h_calls, serial, issued>>
    /\ UNCHANGED <<hotkey_vars, app_vars>>

\* delete(entry_id)
Delete(id) ==
    /\ CanCall
    /\ rows' = {r \in rows : r.id # id}
    /\ h_event' = <<"none", 0>>
    /\ h_result' = <<>>
    /\ UNCHANGED <<seq, now, tz, h_calls, serial, issued>>
    /\ UNCHANGED <<hotkey_vars, app_vars>>

\* clear()
Clear ==
    /\ CanCall
    /\ rows' = {}
    /\ h_event' = <<"none", 0>>
    /\ h_result' = <<>>
    /\ UNCHANGED <<seq, now, tz, h_calls, serial, issued>>
    /\ UNCHANGED <<hotkey_vars, app_vars>>

\* cleanup(), called on its own
Cleanup ==
    /\ CanCall
    /\ rows' \in CleanupResults(rows, now, tz)
    /\ h_event' = <<"cleanup", 0>>
    /\ h_result' = <<>>
    /\ UNCHANGED <<seq, now, tz, h_calls, serial, issued>>
    /\ UNCHANGED <<hotkey_vars, app_vars>>

\* count()
Count ==
    /\ CanCall
    /\ h_event' = <<"count", Cardinality(rows)>>
    /\ h_result' = <<>>
    /\ UNCHANGED <<rows, seq, now, tz, h_calls, serial, issued>>
    /\ UNCHANGED <<hotkey_vars, app_vars>>

\* time passes; a tick is long against a call, so with one call at a time
\* the clock does not tick inside add()
Tick ==
    /\ now < MaxTime
    /\ serial => h_calls = {}
    /\ now' = now + 1
    /\ h_event' = <<"none", 0>>
    /\ h_result' = <<>>
    /\ UNCHANGED <<rows, seq, tz, h_calls, serial, issued>>
    /\ UNCHANGED <<hotkey_vars, app_vars>>

HistoryNext ==
    \/ AddInsert
    \/ \E id \in Ids : AddCleanup(id)
    \/ \E id \in Ids : AddReturn(id)
    \/ \E limit \in Limits : GetRecent(limit)
    \/ \E id \in Ids : Delete(id)
    \/ Clear
    \/ Cleanup
    \/ Count
    \/ Tick

(***************************************************************************)
(*                           Specifications                                *)
(***************************************************************************)

\* the hotkey engine alone, in either mode, under every sequence of key
\* events
HotkeySpecInit == HotkeyInit /\ AppInit /\ HistoryInit /\ tz = 0 /\ ~serial

SpecHotkey == HotkeySpecInit /\ [][HotkeyNext]_vars

\* the application in hold mode (config.RECORDING_MODE); every
\* started worker thread is scheduled and the calls it makes return
AppSpecInit ==
    HotkeyInit /\ mode = "hold" /\ AppInit /\ HistoryInit /\ tz = 0 /\ ~serial

AppFairness == \A w \in Workers : WF_vars(WorkerStep(w))

SpecApp == AppSpecInit /\ [][AppNext]_vars /\ AppFairness

\* the listener alone, with the keyboard, stopped and started again at any
\* moment
LifecycleSpecInit == HotkeySpecInit

SpecLifecycle == LifecycleSpecInit /\ [][LifecycleNext]_vars

\* the recorder alone, started and stopped in any order
RecorderSpecInit ==
    HotkeyInit /\ mode = "hold" /\ AppInit /\ HistoryInit /\ tz = 0 /\ ~serial

SpecRecorder == RecorderSpecInit /\ [][RecorderNext]_vars

\* the recorder's lock: one thread calling start(), stop() and
\* get_duration(), and the device's callback thread, step by step
ThreadsSpecInit == RecorderSpecInit

SpecThreads == ThreadsSpecInit /\ [][ThreadsNext]_vars

\* the two handlers step by step, with the device's callback thread and
\* the worker threads
OverlaySpecInit == AppSpecInit

SpecOverlay == OverlaySpecInit /\ [][OverlayNext]_vars

\* the history store alone, called from several threads at once, on a
\* machine whose local time is UTC
HistorySpecInit ==
    HotkeyInit /\ mode = "hold" /\ AppInit /\ HistoryInit /\ tz = 0 /\ ~serial

SpecHistory == HistorySpecInit /\ [][HistoryNext]_vars

\* the history store alone, called one call at a time, in every time zone
HistorySerialInit ==
    HotkeyInit /\ mode = "hold" /\ AppInit /\ HistoryInit /\ serial

SpecHistorySerial == HistorySerialInit /\ [][HistoryNext]_vars

(***************************************************************************)
(*                     Claims about HotkeyListener                         *)
(***************************************************************************)

\* the combo is satisfied: every configured modifier has a physical variant
\* down and the trigger key is down
ComboSatisfied(h) ==
    /\ HOTKEY_KEY \in h
    /\ \A req \in GetRequiredModifiers :
          \E k \in h \cap ModKeys : Normalize(k) = req

\* C1: in Hold mode every key-down that takes the combo from not satisfied
\* to satisfied invokes on_activate, whichever key completes the combo (the
\* trigger key after the modifiers, or a modifier after the trigger key).
C1_ActivateOnEveryRisingEdge ==
    [][(mode = "hold" /\ ~ComboSatisfied(held) /\ ComboSatisfied(held'))
          => cb' = "activate"]_vars

\* C2: in Hold mode, once Activate has fired, the first key-up that makes
\* the combo unsatisfied invokes on_deactivate, whether the key released is
\* the trigger key or a required modifier.
C2_DeactivateOnFirstFallingEdge ==
    [][(mode = "hold" /\ hk_is_recording /\ ev' = "up"
          /\ ComboSatisfied(held) /\ ~ComboSatisfied(held'))
          => cb' = "deactivate"]_vars

\* C3: in Toggle mode every transition of the combo into satisfied invokes
\* a callback, the callbacks alternate Activate, Deactivate, ... starting
\* with Activate, and no key-up invokes a callback.
C3_ToggleEdgesAlternate ==
    [][mode = "toggle" =>
          /\ (~ComboSatisfied(held) /\ ComboSatisfied(held')) => cb' # "none"
          /\ cb' # "none" =>
                cb' = (IF Emitted(last_cb, cb) = "activate"
                       THEN "deactivate" ELSE "activate")
          /\ ev' = "up" => cb' = "none"]_vars

(***************************************************************************)
(*              Claims about WhisperApp and its workers                    *)
(***************************************************************************)

\* C4: at most one transcription worker is executing between its first
\* statement and its except/finally blocks at any time.
C4_AtMostOneWorker ==
    Cardinality({w \in Workers : Running(w)}) <= 1

\* C5: an Activate edge is accepted only when no dispatched clip is still
\* being processed: no worker is in flight and the guard is clear.
C5_ActivateAcceptedOnlyWhenReady ==
    [][(~hotkey_active /\ hotkey_active' /\ last_edge' = "activate_accepted")
          => (~is_transcribing /\ \A w \in Workers : ~InFlight(w))]_vars

\* C6: every worker dispatched by a Deactivate eventually ends with the
\* transcribing guard cleared, whatever the transcription, the insertion
\* and the history write did; a Deactivate whose stop() yields no clip
\* dispatches nothing and leaves the guard clear.
C6_DeactivateLeadsToReady ==
    /\ \A w \in Workers :
          (wpc[w] = "spawned") ~> (wpc[w] = "idle" /\ ~is_transcribing)
    /\ [][(hotkey_active /\ ~hotkey_active'
             /\ last_edge' = "deactivate_accepted" /\ wpc' = wpc)
          => ~is_transcribing']_vars

\* a worker whose call raised has ended and the guard is clear
C6_Witness ==
    /\ last_done = "raised"
    /\ \A w \in Workers : wpc[w] = "idle"
    /\ ~is_transcribing

\* C7: an Activate edge that arrives while the transcribing flag is set
\* changes neither the orchestrator nor the recorder nor the overlay nor
\* the workers.
C7_ActivateDroppedWhileTranscribing ==
    [][(is_transcribing /\ ~hotkey_active /\ hotkey_active')
          => UNCHANGED <<orch_vars, rec_vars, wpc>>]_vars

\* an Activate edge was dropped while a worker was transcribing
C7_Witness ==
    /\ last_edge = "activate_dropped"
    /\ hotkey_active
    /\ \E w \in Workers : Running(w)

(***************************************************************************)
(*                     Claims about HistoryManager                         *)
(***************************************************************************)

\* C8: in every state reached at the return of an add(), the table holds at
\* most max_items rows, also when add() calls of several threads interleave.
C8_CountBoundedAtAddReturn ==
    h_event[1] = "add_return" => Cardinality(rows) <= MaxItems

\* C9: no count() running beside an add() sees more than max_items rows,
\* that is, the insert of add() without the cleanup that follows it.
C9_NoPartialAddObserved ==
    h_event[1] = "count" => h_event[2] <= MaxItems

\* C10: the ids the inserts are given are strictly increasing over the
\* lifetime of the store, whatever was deleted, evicted or cleared between.
C10_IdsStrictlyIncreasing ==
    \A i \in 1..Len(issued) : \A j \in 1..Len(issued) :
        i < j => issued[i] < issued[j]

\* an add() has just inserted into a store from which every row added
\* before, the one with the highest id included, is gone
C10_Witness ==
    /\ Len(issued) >= 2
    /\ \E call \in h_calls : call.pc = "cleanup"
    /\ Cardinality(rows) = 1

\* an entry created at created_at is older than the retention window at
\* time t, both in UTC
OlderThanWindow(created_at, t) ==
    created_at < t - RetentionDays * TicksPerDay

\* C11: when the cleanup that add() runs before it returns has run, no
\* entry that was in the store before the add() and whose created_at is
\* older than now minus the retention window is left in the store.
C11_NoExpiredEntryAfterAdd ==
    \A call \in h_calls :
        (h_event[1] = "cleanup" /\ call.pc = "return")
            => \A r \in rows :
                  r.id # call.entry_id => ~OlderThanWindow(r.created_at, now)

\* C15: a get_recent(1) called right after an add() has returned id, with
\* one call at a time and nothing in between, returns exactly one entry,
\* the one with that id.
C15_AddThenGetRecentOne ==
    [][(h_event[1] = "add_return" /\ h_event' = <<"get_recent", 1>>)
          => (Len(h_result') = 1 /\ h_result'[1].id = h_event[2])]_vars

\* entry a is more recent than entry b: by created_at, ties by id
MoreRecent(a, b) ==
    \/ a.created_at > b.created_at
    \/ a.created_at = b.created_at /\ a.id > b.id

RECURSIVE MostRecent(_, _)
MostRecent(rs, n) ==
    IF n = 0 \/ rs = {} THEN {}
    ELSE LET m == CHOOSE r \in rs : \A o \in rs \ {r} : MoreRecent(r, o)
         IN  {m} \cup MostRecent(rs \ {m}, n - 1)

CleanedUp(rs, t) ==
    MostRecent({r \in rs : ~OlderThanWindow(r.created_at, t)}, MaxItems)

\* C17: cleanup() removes the entries older than the retention window and
\* then, if more than max_items are left, the oldest of the rest by
\* (created_at, id) until max_items are left; it removes nothing else.
C17_CleanupAgeThenCount ==
    [][h_event'[1] = "cleanup" => rows' = CleanedUp(rows, now)]_vars

(***************************************************************************)
(*                       Claims about AudioRecorder                        *)
(***************************************************************************)

\* C12: stop() on an armed recorder returns no clip when fewer than half a
\* second of samples is buffered (no chunk at all included), and otherwise,
\* exactly half a second included, a clip that holds the samples of the
\* buffered chunks in the order they arrived, as many frames as were
\* buffered.
C12_StopReturnsBufferedClip ==
    [][(rec_event' = "stop" /\ rec_is_recording)
          => IF 2 * ConcatLen(audio_data) < SampleRate
             THEN rec_ret' = NoClip
             ELSE /\ rec_ret' # NoClip
                  /\ Len(rec_ret') = ConcatLen(audio_data)
                  /\ \A i \in 1..Len(rec_ret') :
                        rec_ret'[i] = Concat(audio_data)[i] * Int16Max]_vars

\* a stop() has returned a clip of exactly half a second
C12_Witness ==
    /\ rec_event = "stop"
    /\ rec_ret # NoClip
    /\ 2 * Len(rec_ret) = SampleRate

\* C13: after any stop() the recorder is not armed, its buffer is empty,
\* get_duration() is 0 and no stream is open; a stop() on a recorder that
\* is not armed returns no clip and changes nothing; of two stop() in a row
\* the second returns no clip.
C13_StopLeavesRecorderIdle ==
    [][rec_event' = "stop"
          => /\ ~rec_is_recording'
             /\ audio_data' = <<>>
             /\ GetDurationFrames(audio_data') = 0
             /\ ~stream_open'
             /\ ~rec_is_recording => (rec_ret' = NoClip /\ UNCHANGED rec_vars)
             /\ rec_event = "stop" => rec_ret' = NoClip]_vars

\* a stop() has returned a clip and left the recorder idle
C13_Witness ==
    /\ rec_event = "stop"
    /\ rec_ret # NoClip
    /\ Len(rec_ret) > 2
    /\ ~rec_is_recording
    /\ audio_data = <<>>
    /\ ~stream_open

\* C14: start() on an armed recorder changes nothing: the buffered chunks
\* are kept, the recorder stays armed and no stream is opened; start() on a
\* recorder that is not armed arms it with an empty buffer, and with an
\* open stream when the device opens.
C14_StartWhileArmedIsNoOp ==
    [][(rec_event' \in {"start", "start_raised"})
          => IF rec_is_recording
             THEN UNCHANGED rec_vars
             ELSE /\ rec_is_recording'
                  /\ audio_data' = <<>>
                  /\ rec_event' = "start" => stream_open']_vars

\* a start() has returned on a recorder that was armed and had chunks
C14_Witness ==
    /\ rec_event = "start"
    /\ rec_is_recording
    /\ audio_data # <<>>

(***************************************************************************)
(*                  Claims about failures in the pipeline                  *)
(***************************************************************************)

\* C18: a worker whose transcription raised calls neither
\* text_inserter.insert nor history.add: it is in its except block or in
\* the finally block after it, until the thread ends, which it does, with
\* the transcribing flag cleared.
C18_TranscribeFailureCaught ==
    /\ [](\A w \in Workers :
              w_raised[w] = "transcribe"
                  => wpc[w] \in {"except", "finally_raised"})
    /\ \A w \in Workers :
          (w_raised[w] = "transcribe") ~> (wpc[w] = "idle" /\ ~is_transcribing)

\* a worker whose transcription raised has left its except block
C18_Witness ==
    \E w \in Workers :
        w_raised[w] = "transcribe" /\ wpc[w] = "finally_raised"

\* C19: an Activate whose recorder.start() raised while opening the stream
\* leaves the session abandoned: the recorder is not armed, nothing is
\* buffered and the overlay is not showing; and every later Activate that
\* is accepted leaves a stream open.
C19_StartFailureAbandonsSession ==
    [][(~hotkey_active /\ hotkey_active')
          => /\ last_edge' = "activate_raised"
                  => /\ ~rec_is_recording'
                     /\ audio_data' = <<>>
                     /\ ~overlay_visible'
             /\ last_edge' = "activate_accepted" => stream_open']_vars

\* C20: whatever happens in text_inserter.insert, the worker goes on to
\* history.add: a failed insert does not take it to the except block.
C20_InsertFailureIsSilent ==
    [][\A w \in Workers :
          (wpc[w] = "insert" /\ wpc'[w] # "insert") => wpc'[w] = "add"]_vars

(***************************************************************************)
(*                 Claims about the orchestrator's edges                   *)
(***************************************************************************)

\* C21: a Deactivate edge that arrives while the recorder is not armed or
\* a transcription is running is dropped: stop() is not called, the
\* overlay is not touched, no worker is started and nothing of the
\* orchestrator or the recorder changes.
C21_DeactivateIgnoredUnlessRecording ==
    [][(hotkey_active /\ ~hotkey_active'
            /\ (~rec_is_recording \/ is_transcribing))
          => /\ last_edge' = "deactivate_dropped"
             /\ UNCHANGED <<orch_vars, rec_vars, rec_obs, wpc>>]_vars

\* C22: a worker thread is started exactly in the steps in which stop()
\* yields a clip, one thread per clip; a thread enters the engine only from
\* its start, so once, and every started thread gets there; when stop()
\* yields none no thread is started and the transcribing flag stays clear.
C22_EngineOncePerClip ==
    /\ [][/\ (hotkey_active /\ ~hotkey_active'
                  /\ last_edge' = "deactivate_accepted")
              => IF rec_ret' # NoClip
                 THEN Cardinality({w \in Workers :
                          wpc[w] = "idle" /\ wpc'[w] = "spawned"}) = 1
                 ELSE wpc' = wpc /\ is_transcribing' = is_transcribing
          /\ \A w \in Workers :
                (wpc'[w] = "spawned" /\ wpc[w] # "spawned")
                    => /\ wpc[w] = "idle"
                       /\ hotkey_active /\ ~hotkey_active'
                       /\ rec_event' = "stop"
                       /\ rec_ret' # NoClip
          /\ \A w \in Workers :
                (wpc'[w] = "transcribe" /\ wpc[w] # "transcribe")
                    => wpc[w] = "spawned"]_vars
    /\ \A w \in Workers : (wpc[w] = "spawned") ~> (wpc[w] = "transcribe")

\* a stop() has yielded a clip and a worker thread has been started for it
C22_Witness ==
    /\ last_edge = "deactivate_accepted"
    /\ rec_event = "stop"
    /\ rec_ret # NoClip
    /\ \E w \in Workers : wpc[w] = "spawned"

\* C23: a worker calls history.add only after text_inserter.insert, after
\* insert it goes on to add, and it is through both before it ends; after
\* an empty text it ends without insert and add.
C23_InsertThenAddThenReady ==
    [][\A w \in Workers :
          /\ (wpc'[w] = "insert" /\ wpc[w] # "insert") => wpc[w] = "transcribe"
          /\ (wpc'[w] = "add" /\ wpc[w] # "add") => wpc[w] = "insert"
          /\ (wpc[w] = "insert" /\ wpc'[w] # "insert") => wpc'[w] = "add"
          /\ (wpc[w] = "finally" /\ wpc'[w] # "finally") => wpc'[w] = "idle"
          /\ (wpc'[w] = "idle" /\ wpc[w] # "idle")
                => wpc[w] \in {"finally", "finally_raised"}]_vars

\* C30: in every state in which no worker thread is in flight and the
\* hotkey is not active, the recorder is not armed and no stream is open.
C30_NoCaptureLeftBehind ==
    ((\A w \in Workers : wpc[w] = "idle") /\ ~hotkey_active)
        => (~rec_is_recording /\ ~stream_open)

(***************************************************************************)
(*            Claims about key repeat, restart and variants                *)
(***************************************************************************)

\* C24: in hold mode on_activate is never invoked twice in a row: the
\* callback before an on_activate, if there is one, is an on_deactivate,
\* and an on_deactivate comes with a key-up after which the combo is not
\* satisfied; no key-down that finds the active flag set invokes a callback.
C24_NoActivateOnKeyRepeat ==
    [][mode = "hold"
          => /\ cb' = "activate" => Emitted(last_cb, cb) # "activate"
             /\ cb' = "deactivate"
                   => (ev' = "up" /\ ~ComboSatisfied(held'))
             /\ (ev' = "down" /\ hotkey_active) => cb' = "none"]_vars

\* the trigger key has repeated, or another key has gone down, while the
\* combo was held after an on_activate
C24_Witness ==
    /\ mode = "hold"
    /\ ev = "down"
    /\ cb = "none"
    /\ last_cb = "activate"
    /\ hotkey_active
    /\ held = {"cmd", "shift_l", "space"}

\* C25: when stop() has returned the pressed modifiers are empty and both
\* flags are false, and stop() invokes no callback; an on_activate is only
\* invoked by a key-down, after the listener has got, since its last
\* start, a key-down of every configured modifier and of the trigger key.
C25_StopResetsPressedState ==
    [][/\ ev' = "stop"
          => /\ pressed_modifiers' = {}
             /\ ~hk_is_recording'
             /\ ~hotkey_active'
             /\ cb' = "none"
       /\ cb' = "activate"
          => /\ ev' = "down"
             /\ HOTKEY_KEY \in downs'
             /\ GetRequiredModifiers \subseteq downs']_vars

\* an on_activate after a restart: a modifier that went down before the
\* listener was last started is still held
C25_Witness ==
    /\ cb = "activate"
    /\ \E key \in held \cap ModKeys : Normalize(key) \notin downs

\* C29: a modifier is in the pressed set exactly when one of its physical
\* keys is held.
C29_ModifierPressedIffVariantHeld ==
    listener =>
        pressed_modifiers = {Normalize(key) : key \in held \cap ModKeys}

(***************************************************************************)
(*                   Claims about the recorder's lock                      *)
(***************************************************************************)

\* C26: the callback thread never holds the recorder's lock while it calls
\* on_amplitude.
C26_AmplitudeOutsideLock ==
    cbk_pc = "amplitude" => lock # "callback"

\* C27: the thread in start() or stop() does not hold the lock while it
\* creates and starts, or stops and closes, the device stream: the lock is
\* free or held by the callback thread.
C27_LockFreeDuringStreamCalls ==
    client_pc \in {"start_open", "stop_stream"} => lock # "client"

\* a callback holds the lock while stop() is in its stream calls
C27_Witness ==
    /\ client_pc = "stop_stream"
    /\ lock = "callback"
    /\ stream_open

\* the with blocks of start(), stop() and get_duration()
ClientLocked == {"start_locked", "stop_locked", "stop_drain", "duration_locked"}

\* C28: the callback thread is inside its with block only while it holds
\* the lock, and so is the thread in start(), stop() or get_duration(), so
\* never both; the buffer grows only while the recorder is armed; and the
\* chunks stop() concatenates are the chunks the callback got while the
\* recorder was armed since start() armed it, in the order they came.
C28_BufferAccessExclusive ==
    [][/\ cbk_pc' \in {"amplitude", "exit"} => lock' = "callback"
       /\ client_pc' \in ClientLocked => lock' = "client"
       /\ Len(audio_data') > Len(audio_data) => rec_is_recording
       /\ (client_pc = "stop_drain" /\ client_pc' = "idle")
             => /\ audio_data = session
                /\ rec_ret' \in {NoClip, ToInt16(Concat(session))}]_vars

\* stop() has returned a clip made of the two chunks of its session
C28_Witness ==
    /\ client_pc = "idle"
    /\ rec_event = "stop"
    /\ Len(session) = 2
    /\ rec_ret = ToInt16(Concat(session))

(***************************************************************************)
(*              Claims about the sequence of the callbacks                 *)
(***************************************************************************)

\* C31: in hold mode the callbacks alternate, starting with on_activate:
\* the callback before an on_activate, if there is one, is an
\* on_deactivate, and the callback before an on_deactivate is an
\* on_activate.
C31_HoldCallbacksAlternate ==
    [][mode = "hold"
          => /\ cb' = "activate"
                   => Emitted(last_cb, cb) \in {"none", "deactivate"}
             /\ cb' = "deactivate" => Emitted(last_cb, cb) = "activate"]_vars

\* a second on_activate, after an on_deactivate
C31_Witness ==
    /\ mode = "hold"
    /\ cb = "activate"
    /\ last_cb = "deactivate"

(***************************************************************************)
(*                       Claims about the overlay                          *)
(***************************************************************************)

\* C32: whenever neither handler is under way the overlay is visible
\* exactly when the recorder is armed; and the view is given an amplitude
\* only while the overlay is visible.
C32_OverlayVisibleIffArmed ==
    [][/\ last_edge' \notin {"activate_begun", "deactivate_begun"}
             => (overlay_visible' <=> rec_is_recording')
       /\ (cbk_pc = "deliver" /\ cbk_pc' = "exit") => overlay_visible]_vars

=============================================================================
